---- MODULE Spec2Model ----
(***************************************************************************)
(* PDF figure extraction service (services/pdf-figures/main.py).          *)
(*                                                                         *)
(* One request is followed from a front end (the pipe-style CLI or the    *)
(* network endpoint) through extract_figures: the page loop, the three    *)
(* strategies (embedded images, vector clusters, caption anchors), the    *)
(* release of the document handle, the optional LLM verification pass and *)
(* the answer the caller receives.  The document engine (PyMuPDF) and the *)
(* classifier are external: what they report is drawn with \E at the call *)
(* that asks for it, and each of their calls that the code does not guard *)
(* with try/except may raise.                                              *)
(*                                                                         *)
(* Lengths are page units (integers).  Optional[T] is <<>> for None and   *)
(* <<v>> for a value.  A rectangle is <<x0, y0, x1, y1>>.  A string that  *)
(* is only sliced is a sequence of parts [text, chars]; a classifier      *)
(* response is a sequence of words.                                        *)
(***************************************************************************)
EXTENDS Integers, Sequences, FiniteSets, TLC

\* ------------------------------------------------------------- bounds
\* Largest page count of a document.
MaxPages == 2
\* Largest max_figures a request asks for.
MaxBudget == 2
\* Largest number of sources (images, clusters, matches of one caption
\* pattern) the engine reports for one page.
MaxItems == 2

\* ---------------------------------------------------- program constants
DefaultMinSize == 150
Zoom == 3
CaptionAboveExtent == 250
CaptionGap == 5
CaptionMargin == 30
CaptionMinHeight == 80
CaptionHintChars == 50
CharArea == 50
DensityScale == 10000

None == <<>>
Some(v) == <<v>>
IsNone(o) == o = <<>>
Val(o) == o[1]

Min(a, b) == IF a <= b THEN a ELSE b
Max(a, b) == IF a >= b THEN a ELSE b

\* ------------------------------------------------------------ geometry
\* fitz.Rect(x0, y0, x1, y1); width and height are never negative.
Rect(x0, y0, x1, y1) == <<x0, y0, x1, y1>>
Width(r) == Max(0, r[3] - r[1])
Height(r) == Max(0, r[4] - r[2])

\* has_good_aspect_ratio: min_ratio <= width / height <= max_ratio, the
\* ratios given in tenths (0.4 is 4, 2.5 is 25).
has_good_aspect_ratio(rect, min_ratio10, max_ratio10) ==
    IF Height(rect) = 0 \/ Width(rect) = 0
    THEN FALSE
    ELSE /\ min_ratio10 * Height(rect) <= 10 * Width(rect)
         /\ 10 * Width(rect) <= max_ratio10 * Height(rect)

\* is_likely_text_block: chars is the number of non-blank characters of the
\* text the engine extracts in the region ("" gives 0), threshold in tenths.
is_likely_text_block(chars, rect, threshold10) ==
    IF chars = 0
    THEN FALSE
    ELSE IF Width(rect) * Height(rect) = 0
         THEN TRUE
         ELSE 10 * chars * CharArea > threshold10 * Width(rect) * Height(rect)

\* get_drawing_density(page, rect) < 0.5, with n the number of drawings of
\* the page that intersect rect: (n / area) * 10000 < 0.5.
DensityTooLow(n, rect) ==
    IF n = 0 \/ Width(rect) * Height(rect) = 0
    THEN TRUE
    ELSE 2 * n * DensityScale < Width(rect) * Height(rect)

\* ------------------------------------------------------------- strings
\* A string that the code only builds and slices: a sequence of parts, each
\* the first `chars` characters of a named text.
Str(text, chars) == <<[text |-> text, chars |-> chars]>>
RECURSIVE StrLen(_)
StrLen(s) == IF s = <<>> THEN 0 ELSE Head(s).chars + StrLen(Tail(s))
\* s[:n]
RECURSIVE Slice(_, _)
Slice(s, n) ==
    IF s = <<>> \/ n <= 0
    THEN <<>>
    ELSE IF Head(s).chars <= n
         THEN <<Head(s)>> \o Slice(Tail(s), n - Head(s).chars)
         ELSE <<[text |-> Head(s).text, chars |-> n]>>

\* ---------------------------------------------------- the Figure model
\* Figure(page, imageBase64, dimensions, bounds, captionHint).  The image
\* payload is the encoding of one source: the k-th source the engine
\* reported to strategy src (for a caption, the k-th match of pattern pat).
Payload(src, pat, k) == [src |-> src, pat |-> pat, k |-> k]
Figure(page, image, dims, bounds, hint) ==
    [page |-> page, imageBase64 |-> image, dimensions |-> dims,
     bounds |-> bounds, captionHint |-> hint]

\* ----------------------------------------- what the engine may report
\* doc.extract_image(xref): width, height, ext; decodes is FALSE when
\* extract_image, or the Pixmap conversion of a foreign format, raises.
Image(w, h, ext, decodes) ==
    [width |-> w, height |-> h, ext |-> ext, decodes |-> decodes]
ImageKinds ==
    { Image(400, 300, "png", TRUE),
      Image(1000, 150, "jpeg", TRUE),
      Image(400, 300, "tiff", FALSE) }
\* page.cluster_drawings(tolerance=10): cluster rectangles.
ClusterRects ==
    { Rect(100, 100, 300, 250),
      Rect(0, 0, 600, 160) }
\* Non-blank characters of the text clipped to a region.
TextChars == {0, 2000}
\* Drawings of the page that intersect a region.
DrawingCounts == {0, 40}
\* page.rect.width
PageWidths == {60, 612}
\* y0 of a match rectangle returned by page.search_for (the figure region
\* above the match depends on y0 only).
CaptionTops == {4, 300}
\* Text of the caption band: a label longer than the hint keeps.
CaptionTexts == { Str("Figure 1: Results and more", 64) }
CaptionPatterns == << Str("Figure ", 7), Str("Fig. ", 5) >>
\* One match of a caption pattern: where it is, the text of its caption band
\* and the non-blank characters of the text in the region above it.
CaptionMatches == [y0 : CaptionTops, text : CaptionTexts, chars : TextChars]

SeqsUpTo(S, n) == UNION { [1..m -> S] : m \in 0..n }

\* ------------------------------------------------- request parameters
MaxFiguresValues == 0..MaxBudget
PageArgs == {None} \cup { Some(p) : p \in -1..(MaxPages + 1) }
\* The arguments of a request: every budget with every page window without
\* verification, and every budget over the whole document with it (the
\* verification pass runs after the page loop and does not read the window).
Requests ==
    [max_figures : MaxFiguresValues, start_page : PageArgs,
     end_page : PageArgs, verify_with_llm : {FALSE}]
    \cup
    [max_figures : MaxFiguresValues, start_page : {None}, end_page : {None},
     verify_with_llm : {TRUE}]
Payloads == {"empty", "nomagic", "corrupt", "pdf"}

VARIABLES
    frontend,      \* "cli" or "endpoint"
    payload,       \* kind of the bytes received
    fileOk,        \* endpoint: filename ends in .pdf or content type is PDF
    max_figures, start_page, end_page, min_size, verify_with_llm,
    pc,            \* position of the request
    doc,           \* document handle: "none", "open", "closed"
    page_count,
    llm_model,     \* "None" or "model"
    last_page, page_index,
    figures,
    embedded_figs, ei,
    drawing_rects, \* number of rectangles cluster_drawings returned; each
                   \* rectangle is drawn when the loop reads it
    ri,
    pattern, page_width, page_figures_from_captions,
    vi, verified_figures,
    response,      \* what the caller receives
    candidates,    \* history: the list the verification pass started from
    calls,         \* history: the calls made while the budget was exhausted
    survivors,     \* history: every caption candidate of the page that passed
                   \* the filters, budget or not
    outcomes,      \* history: the kinds of answer the classifier calls gave
    removed        \* history: the classifier answers that removed a candidate

request == <<frontend, payload, fileOk, max_figures, start_page, end_page,
             min_size, verify_with_llm>>
pageLocals == <<embedded_figs, ei, drawing_rects, ri, pattern, page_width,
                page_figures_from_captions>>
verifyLocals == <<vi, verified_figures>>
vars == <<request, pc, doc, page_count, llm_model, last_page, page_index,
          figures, pageLocals, verifyLocals, response, candidates, calls,
          survivors, outcomes, removed>>

NoResponse ==
    [shape |-> "none", success |-> FALSE, figures |-> <<>>, error |-> None,
     status |-> 0]
\* ExtractionResponse / the CLI's result dict, with the process exit status
\* (CLI) or the HTTP status (endpoint).
Envelope(success, figs, error, status) ==
    [shape |-> "envelope", success |-> success, figures |-> figs,
     error |-> error, status |-> status]
\* What FastAPI sends for a raised HTTPException: {"detail": ...}.
HttpError(status, detail) ==
    [shape |-> "detail", success |-> FALSE, figures |-> <<>>,
     error |-> Some(detail), status |-> status]

Init ==
    /\ frontend \in {"cli", "endpoint"}
    /\ payload \in Payloads
    /\ fileOk \in BOOLEAN
    /\ (frontend = "cli" => fileOk)
    /\ max_figures = 10
    /\ start_page = None
    /\ end_page = None
    /\ min_size = DefaultMinSize
    /\ verify_with_llm = FALSE
    /\ pc = "start"
    /\ doc = "none"
    /\ page_count = 0
    /\ llm_model = "None"
    /\ last_page = 0
    /\ page_index = 0
    /\ figures = <<>>
    /\ embedded_figs = <<>> /\ ei = 1
    /\ drawing_rects = 0 /\ ri = 1
    /\ pattern = 1 /\ page_width = 0
    /\ page_figures_from_captions = <<>>
    /\ vi = 1 /\ verified_figures = <<>>
    /\ response = NoResponse
    /\ candidates = <<>>
    /\ calls = {}
    /\ survivors = <<>>
    /\ outcomes = {}
    /\ removed = {}

\* ------------------------------------------------------- front ends
\* History of one call: it is recorded when it is made with no budget left.
Late(op, late) == IF late THEN {op} ELSE {}

\* The arguments argparse / the form fields deliver.
ParseArgs ==
    /\ \E r \in Requests :
        /\ max_figures' = r.max_figures
        /\ start_page' = r.start_page
        /\ end_page' = r.end_page
        /\ verify_with_llm' = r.verify_with_llm
    /\ min_size' = DefaultMinSize
    /\ UNCHANGED <<frontend, payload, fileOk>>

Answer(r) ==
    /\ response' = r
    /\ pc' = "done"
    /\ UNCHANGED <<request, doc, page_count, llm_model, last_page, page_index,
                   figures, pageLocals, verifyLocals, candidates, calls,
                   survivors, outcomes, removed>>

CallExtract ==
    /\ ParseArgs
    /\ pc' = "open"
    /\ UNCHANGED <<doc, page_count, llm_model, last_page, page_index, figures,
                   pageLocals, verifyLocals, response, candidates, calls,
                   survivors, outcomes, removed>>

\* cli_mode, lines 557-560: nothing on stdin.
CliNoData ==
    /\ pc = "start" /\ frontend = "cli"
    /\ payload = "empty"
    /\ Answer(Envelope(FALSE, <<>>, Some("No PDF data received on stdin"), 1))

\* cli_mode, lines 562-565: the bytes do not start with %PDF.
CliNoHeader ==
    /\ pc = "start" /\ frontend = "cli"
    /\ payload = "nomagic"
    /\ Answer(Envelope(FALSE, <<>>, Some("Invalid PDF: missing PDF header"), 1))

\* cli_mode, lines 567-574.
CliExtract ==
    /\ pc = "start" /\ frontend = "cli"
    /\ payload \in {"corrupt", "pdf"}
    /\ CallExtract

\* cli_mode, lines 576-590.
CliSuccess ==
    /\ pc = "returned" /\ frontend = "cli"
    /\ Answer(Envelope(TRUE, figures, None, 0))

\* cli_mode, lines 592-595.
CliFault ==
    /\ pc = "raised" /\ frontend = "cli"
    /\ Answer(Envelope(FALSE, <<>>, Some("str(e)"), 1))

\* extract_figures_endpoint, lines 484-489: raised before the try block.
EndpointNotPdf ==
    /\ pc = "start" /\ frontend = "endpoint"
    /\ ~fileOk
    /\ Answer(HttpError(400, "File must be a PDF document"))

\* extract_figures_endpoint, lines 493-500 and 516-517: the HTTPException is
\* raised again, FastAPI answers {"detail": ...} with status 400.
EndpointNoHeader ==
    /\ pc = "start" /\ frontend = "endpoint"
    /\ fileOk
    /\ payload \in {"empty", "nomagic"}
    /\ Answer(HttpError(400, "Invalid PDF file: missing PDF header"))

\* extract_figures_endpoint, lines 502-509.
EndpointExtract ==
    /\ pc = "start" /\ frontend = "endpoint"
    /\ fileOk
    /\ payload \in {"corrupt", "pdf"}
    /\ CallExtract

\* extract_figures_endpoint, lines 511-514.
EndpointSuccess ==
    /\ pc = "returned" /\ frontend = "endpoint"
    /\ Answer(Envelope(TRUE, figures, None, 200))

\* extract_figures_endpoint, lines 518-523.
EndpointFault ==
    /\ pc = "raised" /\ frontend = "endpoint"
    /\ Answer(Envelope(FALSE, <<>>, Some("str(e)"), 200))

\* ------------------------------------------- extract_embedded_images
\* Lines 229-236: the size and aspect filters of one decoded image.
EmbeddedFiltered(img, size) ==
    \/ img.width < size \/ img.height < size
    \/ (IF img.height > 0
        THEN 5 * img.width < img.height \/ img.width > 5 * img.height
        ELSE TRUE)

\* Lines 246-252.
EmbeddedFigure(img, k, index) ==
    Figure(index + 1, Payload("embedded", 0, k), <<img.width, img.height>>,
           None, Some(Str("embedded_", 9) \o Str(img.ext, Len(img.ext))))

RECURSIVE EmbeddedFrom(_, _, _, _)
EmbeddedFrom(images, k, index, size) ==
    IF k > Len(images)
    THEN <<>>
    ELSE (IF images[k].decodes /\ ~EmbeddedFiltered(images[k], size)
          THEN <<EmbeddedFigure(images[k], k, index)>>
          ELSE <<>>) \o EmbeddedFrom(images, k + 1, index, size)

\* The figures of a page returned last image first.
extract_embedded_images_reversed(images, index, size) ==
    LET figs == EmbeddedFrom(images, 1, index, size)
    IN  [i \in 1..Len(figs) |-> figs[Len(figs) + 1 - i]]

\* extract_embedded_images(doc, page_index, min_size) over the images
\* page.get_images reports; an image whose decoding raises is skipped.
extract_embedded_images(images, index, size) ==
    EmbeddedFrom(images, 1, index, size)

\* ----------------------------------------------------- extract_figures
\* start_page or 1, end_page or doc.page_count: None and 0 are both falsy.
OrElse(o, default) == IF IsNone(o) \/ o = Some(0) THEN default ELSE Val(o)
FirstPage(start) == OrElse(start, 1) - 1
LastPage(end, count) == Min(OrElse(end, count), count)

\* The remaining budget, max_figures - len(figures), is zero or less.
Exhausted == max_figures - Len(figures) <= 0

\* A budget check that lets one figure too many through.
BudgetReachedOffByOne == Len(figures) > max_figures
\* len(figures) >= max_figures (lines 302, 311, 324).
BudgetReached == Len(figures) >= max_figures
\* Line 379.
CaptionBudgetReached ==
    Len(figures) + Len(page_figures_from_captions) >= max_figures

ResetLocals ==
    /\ embedded_figs' = <<>> /\ ei' = 1
    /\ drawing_rects' = 0 /\ ri' = 1
    /\ pattern' = 1 /\ page_width' = 0
    /\ page_figures_from_captions' = <<>>
    /\ survivors' = <<>>

\* An exception leaves extract_figures: its locals are gone, the handle is
\* in whatever state it was.
Raise ==
    /\ pc' = "raised"
    /\ figures' = <<>>
    /\ ResetLocals
    /\ vi' = 1 /\ verified_figures' = <<>>
    /\ UNCHANGED <<request, doc, page_count, llm_model, last_page, page_index,
                   response, candidates, calls, outcomes, removed>>

\* Line 289: fitz.open refuses bytes that are no PDF document.
OpenFails ==
    /\ pc = "open"
    /\ payload = "corrupt"
    /\ Raise

\* Lines 289-299: open, obtain the model, determine the page range.
Open ==
    /\ pc = "open"
    /\ payload = "pdf"
    /\ doc' = "open"
    /\ page_count' \in 1..MaxPages
    /\ llm_model' \in (IF verify_with_llm THEN {"None", "model"} ELSE {"None"})
    /\ page_index' = FirstPage(start_page)
    /\ last_page' = LastPage(end_page, page_count')
    /\ figures' = <<>>
    /\ pc' = "page_loop"
    /\ UNCHANGED <<request, pageLocals, verifyLocals, response, candidates,
                   calls, survivors, outcomes, removed>>

\* Line 301: range(first_page, last_page) is exhausted.
PagesDone ==
    /\ pc = "page_loop"
    /\ page_index >= last_page
    /\ pc' = "close"
    /\ UNCHANGED <<request, doc, page_count, llm_model, last_page, page_index,
                   figures, pageLocals, verifyLocals, response, candidates,
                   calls, survivors, outcomes, removed>>

\* Lines 302-303.
PagesBreak ==
    /\ pc = "page_loop"
    /\ page_index < last_page
    /\ BudgetReached
    /\ pc' = "close"
    /\ UNCHANGED <<request, doc, page_count, llm_model, last_page, page_index,
                   figures, pageLocals, verifyLocals, response, candidates,
                   calls, survivors, outcomes, removed>>

\* A page loop without the budget check of lines 302-303.
LoadPageUnchecked ==
    /\ pc = "page_loop"
    /\ page_index < last_page
    /\ calls' = calls \cup Late("load_page", Exhausted)
    /\ pc' = "embedded"
    /\ UNCHANGED <<request, doc, page_count, llm_model, last_page, page_index,
                   figures, pageLocals, verifyLocals, response, candidates,
                   survivors, outcomes, removed>>

\* Line 305: page = doc[page_index]; a negative index counts from the end.
LoadPage ==
    /\ pc = "page_loop"
    /\ page_index < last_page
    /\ ~BudgetReached
    /\ calls' = calls \cup Late("load_page", Exhausted)
    /\ pc' = "embedded"
    /\ UNCHANGED <<request, doc, page_count, llm_model, last_page, page_index,
                   figures, pageLocals, verifyLocals, response, candidates,
                   survivors, outcomes, removed>>

\* Line 309: the call of extract_embedded_images.
ExtractEmbedded ==
    /\ pc = "embedded"
    /\ \E images \in SeqsUpTo(ImageKinds, MaxItems) :
        embedded_figs' = extract_embedded_images(images, page_index, min_size)
    /\ ei' = 1
    /\ calls' = calls \cup Late("embedded", Exhausted)
    /\ pc' = "embedded_loop"
    /\ UNCHANGED <<request, doc, page_count, llm_model, last_page, page_index,
                   figures, drawing_rects, ri, pattern, page_width,
                   page_figures_from_captions, verifyLocals,
                   response, candidates, survivors, outcomes, removed>>

\* Line 215: page.get_images is outside the per-image try block.
EmbeddedFault ==
    /\ pc = "embedded"
    /\ Raise

\* Lines 310-313, one turn of the loop.
EmbeddedAppend ==
    /\ pc = "embedded_loop"
    /\ IF ei > Len(embedded_figs) \/ BudgetReached
       THEN /\ pc' = "cluster"
            /\ UNCHANGED <<figures, ei>>
       ELSE /\ figures' = Append(figures, embedded_figs[ei])
            /\ ei' = ei + 1
            /\ pc' = "embedded_loop"
    /\ UNCHANGED <<request, doc, page_count, llm_model, last_page, page_index,
                   embedded_figs, drawing_rects, ri, pattern, page_width,
                   page_figures_from_captions, verifyLocals,
                   response, candidates, calls, survivors, outcomes, removed>>

\* Lines 317-321: cluster_drawings; when it raises the page has no clusters.
ClusterDrawings ==
    /\ pc = "cluster"
    /\ drawing_rects' \in 0..MaxItems
    /\ ri' = 1
    /\ calls' = calls \cup Late("cluster", Exhausted)
    /\ pc' = "vector_loop"
    /\ UNCHANGED <<request, doc, page_count, llm_model, last_page, page_index,
                   figures, embedded_figs, ei, pattern, page_width,
                   page_figures_from_captions, verifyLocals,
                   response, candidates, survivors, outcomes, removed>>

\* Lines 327-342: the filter chain of one cluster rectangle; chars and n
\* are what the engine reports for the text and the drawings of the region.
VectorFiltered(rect, chars, n, size) ==
    \/ Width(rect) < size \/ Height(rect) < size
    \/ ~has_good_aspect_ratio(rect, 4, 25)
    \/ is_likely_text_block(chars, rect, 4)
    \/ DensityTooLow(n, rect)

\* Lines 352-365.
VectorFigure(rect, k, index) ==
    Figure(index + 1, Payload("vector", 0, k),
           <<Width(rect) * Zoom, Height(rect) * Zoom>>, rect, None)

\* Lines 323-365, one turn of the loop.
VectorStep ==
    /\ pc = "vector_loop"
    /\ IF ri > drawing_rects \/ BudgetReached
       THEN /\ pc' = "caption_gate"
            /\ UNCHANGED <<figures, ri, calls>>
       ELSE \E rect \in ClusterRects, chars \in TextChars, n \in DrawingCounts :
            /\ pc' = "vector_loop"
            /\ ri' = ri + 1
            /\ IF VectorFiltered(rect, chars, n, min_size)
               THEN UNCHANGED <<figures, calls>>
               ELSE /\ figures' = Append(figures, VectorFigure(rect, ri, page_index))
                    /\ calls' = calls \cup Late("rasterize", Exhausted)
    /\ UNCHANGED <<request, doc, page_count, llm_model, last_page, page_index,
                   embedded_figs, ei, drawing_rects, pattern, page_width,
                   page_figures_from_captions, verifyLocals,
                   response, candidates, survivors, outcomes, removed>>

\* Lines 336-349: get_text, get_drawings, get_pixmap or tobytes raises on a
\* rectangle that passed the size and aspect filters.
VectorFault ==
    /\ pc = "vector_loop"
    /\ ri <= drawing_rects /\ ~BudgetReached
    /\ \E rect \in ClusterRects :
        /\ ~(Width(rect) < min_size \/ Height(rect) < min_size)
        /\ has_good_aspect_ratio(rect, 4, 25)
    /\ Raise

NextPage ==
    /\ page_index' = page_index + 1
    /\ pc' = "page_loop"
    /\ ResetLocals

\* The caption strategy run on every page, embedded figures or not.
CaptionGateNoSkip ==
    /\ pc = "caption_gate"
    /\ page_figures_from_captions' = <<>>
    /\ survivors' = <<>>
    /\ pattern' = 1
    /\ page_width' \in PageWidths
    /\ pc' = "caption_search"
    /\ UNCHANGED <<page_index, embedded_figs, ei, drawing_rects, ri>>
    /\ UNCHANGED <<request, doc, page_count, llm_model, last_page, figures,
                   verifyLocals, response, candidates, calls, outcomes, removed>>

\* Lines 370-374: a page with embedded figures skips the caption strategy.
CaptionGate ==
    /\ pc = "caption_gate"
    /\ IF embedded_figs # <<>>
       THEN NextPage
       ELSE /\ page_figures_from_captions' = <<>>
            /\ survivors' = <<>>
            /\ pattern' = 1
            /\ page_width' \in PageWidths
            /\ pc' = "caption_search"
            /\ UNCHANGED <<page_index, embedded_figs, ei, drawing_rects, ri>>
    /\ UNCHANGED <<request, doc, page_count, llm_model, last_page, figures,
                   verifyLocals, response, candidates, calls, outcomes, removed>>

\* Lines 393-398: the band above a caption whose match starts at y0.
FigureRect(y0, width) ==
    Rect(CaptionMargin, Max(0, y0 - CaptionAboveExtent),
         width - CaptionMargin, y0 - CaptionGap)

\* The caption filter without its minimum height.
CaptionFilteredNoHeight(rect, chars, size) ==
    \/ Width(rect) < size
    \/ is_likely_text_block(chars, rect, 5)

\* Lines 400-406.
CaptionFiltered(rect, chars, size) ==
    \/ Width(rect) < size \/ Height(rect) < CaptionMinHeight
    \/ is_likely_text_block(chars, rect, 5)

\* Line 427: caption_text[:50] if caption_text else caption_pattern.
CaptionHint(text, pat) ==
    IF text # <<>> THEN Slice(text, CaptionHintChars) ELSE CaptionPatterns[pat]

\* Lines 414-428.
CaptionFigure(rect, text, pat, k, index) ==
    Figure(index + 1, Payload("caption", pat, k),
           <<Width(rect) * Zoom, Height(rect) * Zoom>>, rect,
           Some(CaptionHint(text, pat)))

\* A match loop that stops at the first filtered match instead of going on
\* to the next one.
RECURSIVE CaptionScanStopAtFiltered(_, _, _, _, _, _, _, _, _)
CaptionScanStopAtFiltered(matches, k, batch, figs, limit, size, pat, width, index) ==
    IF k > Len(matches) \/ Len(figs) + Len(batch) >= limit
    THEN batch
    ELSE LET figure_rect == FigureRect(matches[k].y0, width) IN
         IF CaptionFiltered(figure_rect, matches[k].chars, size)
         THEN batch
         ELSE CaptionScanStopAtFiltered(matches, k + 1,
                     Append(batch, CaptionFigure(figure_rect, matches[k].text,
                                                 pat, k, index)),
                     figs, limit, size, pat, width, index)

\* Lines 378-428: the loop over the matches of one pattern, from match k on,
\* with the batch collected so far.
RECURSIVE CaptionScan(_, _, _, _, _, _, _, _, _)
CaptionScan(matches, k, batch, figs, limit, size, pat, width, index) ==
    IF k > Len(matches) \/ Len(figs) + Len(batch) >= limit
    THEN batch
    ELSE LET figure_rect == FigureRect(matches[k].y0, width) IN
         CaptionScan(matches, k + 1,
                     IF CaptionFiltered(figure_rect, matches[k].chars, size)
                     THEN batch
                     ELSE Append(batch, CaptionFigure(figure_rect, matches[k].text,
                                                      pat, k, index)),
                     figs, limit, size, pat, width, index)

\* Lines 400-428 over every match of one pattern: the candidates that pass
\* the size and text filters, in match order, whatever the budget.
SurvivingCaptions(matches, size, pat, width, index) ==
    LET passes(k) == ~CaptionFiltered(FigureRect(matches[k].y0, width),
                                      matches[k].chars, size)
        kept == { k \in 1..Len(matches) : passes(k) }
        nth(i) == CHOOSE k \in kept : Cardinality({ j \in kept : j <= k }) = i
    IN  [i \in 1..Cardinality(kept) |->
            CaptionFigure(FigureRect(matches[nth(i)].y0, width),
                          matches[nth(i)].text, pat, nth(i), index)]

\* Lines 375-428, one caption pattern: page.search_for and the loop over
\* its matches.
CaptionPattern ==
    /\ pc = "caption_search"
    /\ pattern <= Len(CaptionPatterns)
    /\ \E matches \in SeqsUpTo(CaptionMatches, MaxItems) :
        /\ page_figures_from_captions' =
            CaptionScan(matches, 1, page_figures_from_captions, figures,
                        max_figures, min_size, pattern, page_width, page_index)
        /\ survivors' = survivors \o
            SurvivingCaptions(matches, min_size, pattern, page_width, page_index)
    /\ pattern' = pattern + 1
    /\ calls' = calls \cup Late("search", Exhausted)
    /\ pc' = IF pattern = Len(CaptionPatterns)
             THEN "caption_extend" ELSE "caption_search"
    /\ UNCHANGED <<request, doc, page_count, llm_model, last_page, page_index,
                   figures, embedded_figs, ei, drawing_rects, ri, page_width,
                   verifyLocals, response, candidates, outcomes, removed>>

\* Lines 376, 389, 405-411: search_for, get_text, get_pixmap or tobytes
\* raises.
CaptionFault ==
    /\ pc = "caption_search"
    /\ pattern <= Len(CaptionPatterns)
    /\ Raise

\* Lines 431-432, then the next page.
CaptionExtend ==
    /\ pc = "caption_extend"
    /\ IF Len(figures) < max_figures
       THEN figures' = figures \o
                SubSeq(page_figures_from_captions, 1,
                       Min(Len(page_figures_from_captions),
                           max_figures - Len(figures)))
       ELSE UNCHANGED figures
    /\ NextPage
    /\ UNCHANGED <<request, doc, page_count, llm_model, last_page,
                   verifyLocals, response, candidates, calls, outcomes, removed>>

\* Line 434.
Close ==
    /\ pc = "close"
    /\ doc' = "closed"
    /\ pc' = "verify_gate"
    /\ candidates' = figures
    /\ UNCHANGED <<request, page_count, llm_model, last_page, page_index,
                   figures, pageLocals, verifyLocals, response, calls,
                   survivors, outcomes, removed>>

\* ------------------------------------------------ verify_figure_with_llm
\* str.upper() on the words classifier responses are made of.
Upper(w) ==
    CASE w = "type:" -> "TYPE:"
      [] w = "type:figure" -> "TYPE:FIGURE"
      [] w = "figure" -> "FIGURE"
      [] w = "text" -> "TEXT"
      [] w = "category:" -> "CATEGORY:"
      [] w = "chart" -> "CHART"
      [] w = "diagram" -> "DIAGRAM"
      [] w = "text_block" -> "TEXT_BLOCK"
      [] w = "Sorry," -> "SORRY,"
      [] w = "unreadable" -> "UNREADABLE"
      [] OTHER -> w
\* str.lower() on the category names.
Lower(w) ==
    CASE w = "CHART" -> "chart"
      [] w = "DIAGRAM" -> "diagram"
      [] w = "GRAPH" -> "graph"
      [] w = "TABLE" -> "table"
      [] w = "ILLUSTRATION" -> "illustration"
      [] w = "PHOTO" -> "photo"
      [] w = "CODE" -> "code"
      [] w = "TEXT_BLOCK" -> "text_block"
      [] w = "MIXED" -> "mixed"
      [] OTHER -> w
UpperText(text) == [i \in 1..Len(text) |-> Upper(text[i])]
\* phrase in text
Contains(text, phrase) ==
    \E i \in 1..(Len(text) - Len(phrase) + 1) :
        SubSeq(text, i, i + Len(phrase) - 1) = phrase

\* Line 118.
Categories ==
    <<"CHART", "DIAGRAM", "GRAPH", "TABLE", "ILLUSTRATION", "PHOTO", "CODE",
      "TEXT_BLOCK", "MIXED">>
\* Lines 117-121: the first category name found in the response.
CategoryOf(result_text) ==
    LET hits == { i \in 1..Len(Categories) : Contains(result_text, <<Categories[i]>>) }
    IN  IF hits = {}
        THEN "unknown"
        ELSE Lower(Categories[CHOOSE i \in hits : \A j \in hits : i <= j])

\* Line 114.
IsFigureVerdict(result_text) ==
    \/ Contains(result_text, <<"TYPE:", "FIGURE">>)
    \/ Contains(result_text, <<"TYPE:FIGURE">>)

\* What one classification call gives: it raises, or it returns words.
Raises == [raises |-> TRUE, words |-> <<>>]
Says(words) == [raises |-> FALSE, words |-> words]
ClassifierOutcomes ==
    { Raises,
      Says(<<"type:", "figure", "category:", "chart">>),
      Says(<<"TYPE:", "TEXT", "CATEGORY:", "text_block">>),
      Says(<<"Sorry,", "unreadable">>) }

\* A classifier call that raises rejects the candidate (fail-closed).
verify_figure_fail_closed(outcome, model) ==
    IF model = "None"
    THEN [is_figure |-> TRUE, figure_type |-> "unknown"]
    ELSE IF outcome.raises
         THEN [is_figure |-> FALSE, figure_type |-> "unknown"]
         ELSE LET result_text == UpperText(outcome.words) IN
              [is_figure |-> IsFigureVerdict(result_text),
               figure_type |-> CategoryOf(result_text)]

\* verify_figure_with_llm(image_base64, model), lines 88-130.
verify_figure_with_llm(outcome, model) ==
    IF model = "None"
    THEN [is_figure |-> TRUE, figure_type |-> "unknown"]
    ELSE IF outcome.raises
         THEN [is_figure |-> TRUE, figure_type |-> "unknown"]
         ELSE LET result_text == UpperText(outcome.words) IN
              [is_figure |-> IsFigureVerdict(result_text),
               figure_type |-> CategoryOf(result_text)]

\* Line 448: f"{figure_type}: {captionHint or ''}".
Annotated(fig, figure_type) ==
    [fig EXCEPT !.captionHint =
        Some(Str(figure_type, Len(figure_type)) \o Str(": ", 2)
             \o (IF IsNone(fig.captionHint) THEN <<>> ELSE Val(fig.captionHint)))]

\* Lines 437-439.
VerifyGate ==
    /\ pc = "verify_gate"
    /\ IF verify_with_llm /\ llm_model # "None" /\ figures # <<>>
       THEN /\ pc' = "verify_loop"
            /\ vi' = 1
            /\ verified_figures' = <<>>
       ELSE /\ pc' = "returned"
            /\ UNCHANGED verifyLocals
    /\ UNCHANGED <<request, doc, page_count, llm_model, last_page, page_index,
                   figures, pageLocals, response, candidates, calls,
                   survivors, outcomes, removed>>

\* Lines 441-449, one candidate.
VerifyStep ==
    /\ pc = "verify_loop"
    /\ vi <= Len(figures)
    /\ \E outcome \in ClassifierOutcomes :
        LET result == verify_figure_with_llm(outcome, llm_model)
            fig == figures[vi]
        IN  /\ outcomes' = outcomes \cup {outcome.raises}
            /\ IF result.is_figure
               THEN /\ verified_figures' =
                          Append(verified_figures,
                                 IF result.figure_type # "unknown"
                                 THEN Annotated(fig, result.figure_type)
                                 ELSE fig)
                    /\ UNCHANGED removed
               ELSE /\ removed' = removed \cup {outcome}
                    /\ UNCHANGED verified_figures
    /\ vi' = vi + 1
    /\ UNCHANGED <<request, pc, doc, page_count, llm_model, last_page,
                   page_index, figures, pageLocals, response, candidates,
                   calls, survivors>>

\* Lines 451-454.
VerifyDone ==
    /\ pc = "verify_loop"
    /\ vi > Len(figures)
    /\ figures' = verified_figures
    /\ pc' = "returned"
    /\ UNCHANGED <<request, doc, page_count, llm_model, last_page, page_index,
                   pageLocals, verifyLocals, response, candidates, calls,
                   survivors, outcomes, removed>>

Next ==
    \/ CliNoData \/ CliNoHeader \/ CliExtract \/ CliSuccess \/ CliFault
    \/ EndpointNotPdf \/ EndpointNoHeader \/ EndpointExtract
    \/ EndpointSuccess \/ EndpointFault
    \/ OpenFails \/ Open
    \/ PagesDone \/ PagesBreak \/ LoadPage
    \/ ExtractEmbedded \/ EmbeddedFault \/ EmbeddedAppend
    \/ ClusterDrawings \/ VectorStep \/ VectorFault
    \/ CaptionGate \/ CaptionPattern \/ CaptionFault
    \/ CaptionExtend
    \/ Close \/ VerifyGate \/ VerifyStep \/ VerifyDone

Spec == Init /\ [][Next]_vars

\* ===================================================== the properties
Source(f) == f.imageBase64.src
AllLists == <<figures, response.figures, verified_figures, candidates>>

\* C1: with max_figures >= 1 the accumulated list never holds more than
\* max_figures entries, at any point of the page and strategy loops, and
\* neither does the list the caller receives.
C1_BudgetNeverExceeded ==
    max_figures >= 1 =>
        /\ Len(figures) <= max_figures
        /\ Len(response.figures) <= max_figures
\* The embedded loop stands before a further figure with the budget used up.
C1_Witness ==
    /\ pc = "embedded_loop"
    /\ max_figures >= 1
    /\ Len(figures) = max_figures
    /\ ei <= Len(embedded_figs)

\* C2: a page on which the embedded-image strategy produced a figure gets no
\* caption-strategy figure: no list holds an embedded and a caption figure
\* of one page, and the caption strategy is not at work on such a page.
C2_NoCaptionOnEmbeddedPage ==
    /\ \A n \in 1..Len(AllLists) : \A i, j \in 1..Len(AllLists[n]) :
        ~ /\ Source(AllLists[n][i]) = "embedded"
          /\ Source(AllLists[n][j]) = "caption"
          /\ AllLists[n][i].page = AllLists[n][j].page
    /\ embedded_figs # <<>> =>
        /\ pc \notin {"caption_search", "caption_extend"}
        /\ page_figures_from_captions = <<>>
\* A page gave an embedded figure and then a vector figure, and the request
\* went on past that page.
C2_Witness ==
    /\ pc = "page_loop"
    /\ Len(figures) = 2
    /\ Source(figures[1]) = "embedded"
    /\ Source(figures[2]) = "vector"
    /\ figures[1].page = figures[2].page
    /\ page_index = figures[1].page

\* C3 (as claimed): every returned figure lies in the requested window
\* clamped to the document: start_page <= page <= end_page where these are
\* given, and 1 <= page <= page_count.
C3_PagesInsideWindow ==
    \A i \in 1..Len(response.figures) :
        LET p == response.figures[i].page IN
        /\ 1 <= p /\ p <= page_count
        /\ ~IsNone(start_page) => Val(start_page) <= p
        /\ ~IsNone(end_page) => p <= Val(end_page)

\* C4: verification enabled and the classifier unreachable (no model, or
\* every classification call raised): the returned list is the list of
\* candidates the verification pass started from.
C4_FailOpen ==
    ( /\ pc = "returned"
      /\ verify_with_llm
      /\ llm_model = "None" \/ outcomes \subseteq {TRUE} )
    => figures = candidates
\* Two candidates, a model, and both classification calls raised.
C4_Witness ==
    /\ pc = "returned"
    /\ verify_with_llm
    /\ llm_model = "model"
    /\ outcomes = {TRUE}
    /\ Len(candidates) = 2

\* C5 (as claimed): a candidate is removed only on an explicit text verdict;
\* an answer without a verdict keeps it.
ExplicitTextVerdict(outcome) ==
    /\ ~outcome.raises
    /\ \/ Contains(UpperText(outcome.words), <<"TYPE:", "TEXT">>)
       \/ Contains(UpperText(outcome.words), <<"TYPE:TEXT">>)
C5_RemovedOnlyOnTextVerdict ==
    \A outcome \in removed : ExplicitTextVerdict(outcome)

\* C6 (as claimed): whatever the front end and the outcome of a request that
\* names a PDF file, the caller gets the envelope; for invalid input and for
\* an internal fault it has success = false, no figures and an error; invalid
\* input never reaches extract_figures.
InvalidInput == payload \in {"empty", "nomagic"}
C6_AlwaysEnvelope ==
    /\ (pc = "done" /\ fileOk) =>
        /\ response.shape = "envelope"
        /\ (InvalidInput \/ payload = "corrupt") =>
            /\ ~response.success
            /\ response.figures = <<>>
            /\ ~IsNone(response.error)
    /\ InvalidInput => pc \in {"start", "done"} /\ doc = "none"

\* C7 (as claimed): when control has left extract_figures, by return or by
\* an exception, the document handle it opened is closed.
C7_HandleReleased ==
    pc \in {"returned", "raised", "done"} => doc # "open"

\* C8: every list is in canonical order: pages ascending; on one page
\* embedded figures, then vector figures, then caption figures; within one
\* strategy the order in which the engine reported the sources ("Figure "
\* matches before "Fig. " matches); and the verification pass returns a
\* subsequence of its candidates.
Rank(f) ==
    CASE Source(f) = "embedded" -> 1
      [] Source(f) = "vector" -> 2
      [] Source(f) = "caption" -> 3
Precedes(f, g) ==
    \/ f.page < g.page
    \/ /\ f.page = g.page
       /\ \/ Rank(f) < Rank(g)
          \/ /\ Rank(f) = Rank(g)
             /\ \/ f.imageBase64.pat < g.imageBase64.pat
                \/ /\ f.imageBase64.pat = g.imageBase64.pat
                   /\ f.imageBase64.k < g.imageBase64.k
Canonical(figs) ==
    \A i, j \in 1..Len(figs) : i < j => Precedes(figs[i], figs[j])
SameFigure(f, g) == f.page = g.page /\ f.imageBase64 = g.imageBase64
RECURSIVE IsSubsequence(_, _)
IsSubsequence(a, b) ==
    IF a = <<>> THEN TRUE
    ELSE IF b = <<>> THEN FALSE
    ELSE IF SameFigure(Head(a), Head(b))
         THEN IsSubsequence(Tail(a), Tail(b))
         ELSE IsSubsequence(a, Tail(b))
C8_CanonicalOrder ==
    /\ \A n \in 1..Len(AllLists) : Canonical(AllLists[n])
    /\ Canonical(figures \o page_figures_from_captions)
    /\ pc \in {"verify_loop", "returned"} =>
        /\ IsSubsequence(verified_figures, candidates)
        /\ IsSubsequence(figures, candidates)
\* The verification pass ran over two candidates from one strategy on one
\* page and kept both.
C8_Witness ==
    /\ pc = "returned"
    /\ outcomes # {}
    /\ Len(figures) = 2
    /\ figures[1].page = figures[2].page
    /\ Source(figures[1]) = Source(figures[2])
    /\ figures[1].imageBase64.pat = figures[2].imageBase64.pat

\* C9: an embedded figure has no bounds; a vector or caption figure has
\* bounds with x0 < x1 and y0 < y1.  This holds of every figure the request
\* holds, and of every rectangle the vector and caption filters let through,
\* for every minimum size from 1 up.
ProperBounds(f) ==
    IF Source(f) = "embedded"
    THEN IsNone(f.bounds)
    ELSE /\ ~IsNone(f.bounds)
         /\ f.bounds[1] < f.bounds[3]
         /\ f.bounds[2] < f.bounds[4]
RectSamples ==
    ClusterRects \cup
    { Rect(100, 100, 100, 400), Rect(300, 100, 100, 250),
      Rect(100, 100, 101, 102), Rect(0, 0, 0, 0), Rect(10, 400, 200, 100) }
TopSamples == CaptionTops \cup {0, 5, 6, 85, 100, 255}
WidthSamples == PageWidths \cup {0, 40, 61, 210}
MinSizes == {1, 100, DefaultMinSize}
C10_NoCallOnceExhausted == calls = {}

\* C10 (amended): once the remaining budget is zero no page is loaded, the
\* embedded-image extraction is not called and no region is rasterized; on
\* the page that used the budget up one later call is still made: vector
\* clustering when embedded figures used it up, caption search when vector
\* figures did.
C10_OnlyCurrentPageCalls ==
    /\ calls \in {{}, {"cluster"}, {"search"}}
    /\ Exhausted =>
        /\ pc # "embedded"
        /\ ~ENABLED LoadPage
        /\ pc = "caption_search" =>
            \A matches \in SeqsUpTo(CaptionMatches, MaxItems) :
                CaptionScan(matches, 1, page_figures_from_captions, figures,
                            max_figures, min_size, pattern, page_width,
                            page_index) = page_figures_from_captions
\* Embedded figures used the budget up and cluster_drawings was called all
\* the same.
C10_Witness ==
    /\ pc = "vector_loop"
    /\ Exhausted
    /\ max_figures >= 1
    /\ calls = {"cluster"}

\* C11 (as claimed): the caption figures of a page are computed in full before
\* the batch is truncated: when the page's caption search is over the batch
\* holds every surviving candidate of both patterns.
C11_BatchComputedInFull ==
    pc = "caption_extend" => page_figures_from_captions = survivors

\* C11 (amended): the figures appended for a page on which the caption
\* strategy ran are exactly the first min(remaining budget, n) of the n
\* surviving caption candidates of the page ("Figure " matches in match order,
\* then "Fig. " matches); the batch itself is only collected up to the
\* remaining budget, it is that same prefix.
C11_AppendsPrefixOfSurvivors ==
    [][pc = "caption_extend" =>
        LET prefix == SubSeq(survivors, 1,
                             Min(max_figures - Len(figures), Len(survivors)))
        IN  /\ page_figures_from_captions = prefix
            /\ figures' = figures \o prefix]_vars
\* A page with more surviving caption candidates than budget left, some of
\* them appended after a vector figure.
C11_Witness ==
    /\ pc = "caption_extend"
    /\ figures # <<>>
    /\ Len(survivors) > max_figures - Len(figures)
    /\ page_figures_from_captions # <<>>

====
